---- MODULE Spec2Model ----
(***************************************************************************)
(* ENC28J60 driver (router/src/enc28j60.rs): the transaction-batching      *)
(* engine Transactions<N, M> and the driver state machine Enc28j60<N, M>.  *)
(*                                                                         *)
(* Bytes are naturals 0..255.  A ControlRegisterOperation is a record      *)
(* [kind |-> "Write" | "Read", bytes |-> sequence of bytes].  A            *)
(* ControlRegister is a record [bank |-> 0..3, address |-> 0..31].         *)
(***************************************************************************)
EXTENDS Integers, Sequences, FiniteSets, TLC

VARIABLES
    capN,                  \* const generic N: capacity of the operation buffer
    capM,                  \* const generic M: capacity of the boundary queue
    current_bank,          \* Enc28j60.current_bank
    pending_transactions,  \* Enc28j60.pending_transactions: [buffer, bounds]
    erx_range,             \* Enc28j60.erx_range: [start, end]
    ready,                 \* Enc28j60.ready
    panicked,              \* a panic!/unwrap() abort was reached (panic_halt)
    last,                  \* the last call: its name, arguments and result
    queue,                 \* reference FIFO of operation sequences (engine spec)
    served,                \* what the reference FIFO gave at the last pop (engine spec)
    probed,                \* history: handle_transaction saw the probe answered with bit 0 set
    pc,                    \* the caller's loop: setup, poll, exec, handle, done, aborted
    chip_bank,             \* the chip: bank-select bits of ECON1
    clkrdy,                \* the chip: ESTAT bit 0, the oscillator is stable
    banks,                 \* history: the cached bank when each pending transaction was enqueued
    polled_bank,           \* history: that bank for the transaction last polled
    enqueued,              \* history: the transactions pending when the loop started
    returned,              \* history: the engine transactions polled by the loop
    enum_bits,             \* make_enum: the bit width given
    enum_repr              \* make_enum: the backing type chosen, or the build error

loopvars == <<pc, chip_bank, clkrdy, banks, polled_bank, enqueued, returned>>
enumvars == <<enum_bits, enum_repr>>

vars == <<capN, capM, current_bank, pending_transactions, erx_range, ready,
          panicked, last, queue, served, probed, loopvars, enumvars>>

---------------------------------------------------------------------------
(* Bounds of the model *)

MaxN == 3
MaxM == 3
LargeCap == 15

---------------------------------------------------------------------------
(* Protocol encoding *)

RCR == 0
WCR == 64
BFS == 128
ECON == 31
ESTAT == 29
DefaultN == 50
DefaultM == 10

Bank0 == 0
Bank1 == 1
Bank2 == 2
Bank3 == 3
Bank == {Bank0, Bank1, Bank2, Bank3}

\* u8 `|`
RECURSIVE BitOr(_, _)
BitOr(a, b) ==
    IF a = 0 THEN b
    ELSE IF b = 0 THEN a
    ELSE (IF (a % 2 = 1) \/ (b % 2 = 1) THEN 1 ELSE 0)
         + 2 * BitOr(a \div 2, b \div 2)

\* u8 `&`
RECURSIVE BitAnd(_, _)
BitAnd(a, b) ==
    IF a = 0 \/ b = 0 THEN 0
    ELSE (IF (a % 2 = 1) /\ (b % 2 = 1) THEN 1 ELSE 0)
         + 2 * BitAnd(a \div 2, b \div 2)

Write(bs) == [kind |-> "Write", bytes |-> bs]
Read(bs) == [kind |-> "Read", bytes |-> bs]

ControlRegister(b, a) == [bank |-> b, address |-> a]

\* RegisterAddress::next: the address of the following register
RegisterAddressNext(a) == a + 1

\* ControlRegister::next: same bank, next address
ControlRegisterNext(register) ==
    [register EXCEPT !.address = RegisterAddressNext(register.address)]

ERXSTL == ControlRegister(Bank0, 8)
ERXNDL == ControlRegister(Bank0, 10)
ERXDPTL == ControlRegister(Bank0, 12)
ERXFCON == ControlRegister(Bank1, 24)
MACON1 == ControlRegister(Bank2, 0)
MACON3 == ControlRegister(Bank2, 2)
MACON4 == ControlRegister(Bank2, 3)

\* u16::to_be_bytes: most significant byte first
to_be_bytes(value) == <<(value \div 256) % 256, value % 256>>

---------------------------------------------------------------------------
(* Transactions<N, M>: operators on t = [buffer, bounds]; each returns    *)
(* [t |-> new engine, res |-> "Ok" or the error]                           *)

EmptyTransactions == [buffer |-> <<>>, bounds |-> <<>>]

RECURSIVE SumSeq(_)
SumSeq(s) == IF s = <<>> THEN 0 ELSE Head(s) + SumSeq(Tail(s))

\* faulty variant: the boundary is counted before the capacity check
push_operation_counts_first(t, operation) ==
    LET bounds0 == IF t.bounds = <<>> THEN <<0>> ELSE t.bounds
        bounds1 == [bounds0 EXCEPT ![Len(bounds0)] = @ + 1]
    IN  IF Len(t.buffer) >= capN
        THEN [t |-> [t EXCEPT !.bounds = bounds1], res |-> "OperationsOutOfMemory"]
        ELSE [t |-> [buffer |-> Append(t.buffer, operation), bounds |-> bounds1],
              res |-> "Ok"]

\* faulty variant: the oldest boundary is incremented instead of the newest
push_operation_front(t, operation) ==
    LET bounds0 == IF t.bounds = <<>> THEN <<0>> ELSE t.bounds
        bounds1 == [bounds0 EXCEPT ![1] = @ + 1]
    IN  IF Len(t.buffer) >= capN
        THEN [t |-> t, res |-> "OperationsOutOfMemory"]
        ELSE [t |-> [buffer |-> Append(t.buffer, operation), bounds |-> bounds1],
              res |-> "Ok"]

push_operation(t, operation) ==
    IF Len(t.buffer) >= capN
    THEN [t |-> t, res |-> "OperationsOutOfMemory"]
    ELSE LET bounds0 == IF t.bounds = <<>> THEN <<0>> ELSE t.bounds
             bounds1 == [bounds0 EXCEPT ![Len(bounds0)] = @ + 1]
         IN  [t |-> [buffer |-> Append(t.buffer, operation), bounds |-> bounds1],
              res |-> "Ok"]

\* faulty variant: a boundary opens already counting one operation
new_transaction_counts_one(t) ==
    IF Len(t.bounds) >= capM
    THEN [t |-> t, res |-> "TransactionOutOfMemory"]
    ELSE [t |-> [t EXCEPT !.bounds = Append(@, 1)], res |-> "Ok"]

\* faulty variant: a full boundary queue overwrites its newest boundary
new_transaction_overwrites(t) ==
    IF Len(t.bounds) >= capM
    THEN [t |-> [t EXCEPT !.bounds = [@ EXCEPT ![Len(@)] = 0]],
          res |-> "TransactionOutOfMemory"]
    ELSE [t |-> [t EXCEPT !.bounds = Append(@, 0)], res |-> "Ok"]

new_transaction(t) ==
    IF Len(t.bounds) >= capM
    THEN [t |-> t, res |-> "TransactionOutOfMemory"]
    ELSE [t |-> [t EXCEPT !.bounds = Append(@, 0)], res |-> "Ok"]

\* returns [t, some, result, panic]; panic: buffer.pop_front().unwrap() on an
\* empty buffer
pop_transaction(t) ==
    IF t.bounds = <<>>
    THEN [t |-> t, some |-> FALSE, result |-> <<>>, panic |-> FALSE]
    ELSE LET boundary == Head(t.bounds)
         IN  IF boundary > Len(t.buffer)
             THEN [t |-> [buffer |-> <<>>, bounds |-> Tail(t.bounds)],
                   some |-> FALSE, result |-> <<>>, panic |-> TRUE]
             ELSE [t |-> [buffer |-> SubSeq(t.buffer, boundary + 1, Len(t.buffer)),
                          bounds |-> Tail(t.bounds)],
                   some |-> TRUE,
                   result |-> SubSeq(t.buffer, 1, boundary),
                   panic |-> FALSE]

---------------------------------------------------------------------------
(* Enc28j60<N, M>: operators on s = [current_bank, pending_transactions];  *)
(* each returns [s |-> new driver state, res |-> "Ok" or the error].  A    *)
(* failed step returns at once (`?`), keeping what was enqueued before it. *)

\* faulty variant: a full boundary queue is ignored and the write is pushed
\* into the newest transaction
write_to_control_register_address_unchecked(s, address, value) ==
    LET r1 == new_transaction(s.pending_transactions)
        r2 == push_operation(r1.t, Write(<<BitOr(WCR, address), value>>))
    IN  [s |-> [s EXCEPT !.pending_transactions = r2.t], res |-> r2.res]

write_to_control_register_address(s, address, value) ==
    LET r1 == new_transaction(s.pending_transactions)
    IN  IF r1.res # "Ok"
        THEN [s |-> s, res |-> r1.res]
        ELSE LET r2 == push_operation(r1.t, Write(<<BitOr(WCR, address), value>>))
             IN  [s |-> [s EXCEPT !.pending_transactions = r2.t], res |-> r2.res]

bit_field_set_to_control_register_address(s, address, value) ==
    LET r1 == new_transaction(s.pending_transactions)
    IN  IF r1.res # "Ok"
        THEN [s |-> s, res |-> r1.res]
        ELSE LET r2 == push_operation(r1.t, Write(<<BitOr(BFS, address), value>>))
             IN  [s |-> [s EXCEPT !.pending_transactions = r2.t], res |-> r2.res]

\* faulty variant: the bank switch is enqueued even when the bank is already cached
set_bank_no_elision(s, bank) ==
    LET r == bit_field_set_to_control_register_address(s, ECON, bank)
    IN  IF r.res # "Ok" THEN r
        ELSE [s |-> [r.s EXCEPT !.current_bank = bank], res |-> "Ok"]

\* faulty variant: the cache is updated even when the switch was not enqueued
set_bank_caches_first(s, bank) ==
    IF bank = s.current_bank
    THEN [s |-> s, res |-> "Ok"]
    ELSE LET r == bit_field_set_to_control_register_address(s, ECON, bank)
         IN  [s |-> [r.s EXCEPT !.current_bank = bank], res |-> r.res]

set_bank(s, bank) ==
    IF bank = s.current_bank
    THEN [s |-> s, res |-> "Ok"]
    ELSE LET r == bit_field_set_to_control_register_address(s, ECON, bank)
         IN  IF r.res # "Ok" THEN r
             ELSE [s |-> [r.s EXCEPT !.current_bank = bank], res |-> "Ok"]

write_register(s, register, value) ==
    LET r == set_bank(s, register.bank)
    IN  IF r.res # "Ok" THEN r
        ELSE write_to_control_register_address(r.s, register.address, value)

\* `let [low, high] = value.to_be_bytes();`
write_word(s, register, value) ==
    LET low == to_be_bytes(value)[1]
        high == to_be_bytes(value)[2]
        r == write_register(s, register, low)
    IN  IF r.res # "Ok" THEN r
        ELSE write_register(r.s, ControlRegisterNext(register), high)

\* `self.write_word(..)?` and `self.write_register(..)?` after an earlier step r
then_write_word(r, register, value) ==
    IF r.res # "Ok" THEN r ELSE write_word(r.s, register, value)

then_write_register(r, register, value) ==
    IF r.res # "Ok" THEN r ELSE write_register(r.s, register, value)

init(s, range) ==
    LET start == range.start
        end == range.end
        r1 == write_word(s, ERXSTL, start)
        r2 == then_write_word(r1, ERXNDL, end)
        r3 == then_write_word(r2, ERXDPTL, start)
        r4 == then_write_register(r3, ERXFCON, 0)
        r5 == then_write_register(r4, MACON1, 13)
        r6 == then_write_word(r5, MACON3, 247)
    IN  then_write_word(r6, MACON4, 0)

read_register(s, register) ==
    LET r0 == set_bank(s, register.bank)
    IN  IF r0.res # "Ok" THEN r0
        ELSE
        LET r1 == new_transaction(r0.s.pending_transactions)
        IN  IF r1.res # "Ok" THEN [s |-> r0.s, res |-> r1.res]
            ELSE
            LET r2 == push_operation(r1.t, Write(<<BitOr(RCR, register.address)>>))
            IN  IF r2.res # "Ok"
                THEN [s |-> [r0.s EXCEPT !.pending_transactions = r2.t], res |-> r2.res]
                ELSE
                LET r3 == push_operation(r2.t, Read(<<0>>))
                IN  [s |-> [r0.s EXCEPT !.pending_transactions = r3.t], res |-> r3.res]

\* the transaction poll_pending_transaction synthesizes while not ready
Probe == <<Write(<<BitOr(RCR, ESTAT)>>), Read(<<0>>)>>

\* faulty variant: the engine is popped even while the probe is returned
poll_pending_transaction_pops(t, rdy) ==
    IF ~rdy
    THEN [t |-> pop_transaction(t).t, some |-> TRUE, result |-> Probe,
          panic |-> FALSE]
    ELSE pop_transaction(t)

\* returns [t, some, result, panic]
poll_pending_transaction(t, rdy) ==
    IF ~rdy
    THEN [t |-> t, some |-> TRUE, result |-> Probe, panic |-> FALSE]
    ELSE pop_transaction(t)

\* slice::contains
Contains(bs, b) == \E i \in 1..Len(bs) : bs[i] = b

\* faulty variant: a probing write without its read is let through
handle_transaction_lenient(rdy, transaction) ==
    IF transaction = <<>>
    THEN [ready |-> rdy, panic |-> FALSE]
    ELSE IF /\ Head(transaction).kind = "Write"
            /\ Contains(Head(transaction).bytes, BitOr(RCR, ESTAT))
            /\ Len(transaction) >= 2
            /\ transaction[2].kind = "Read"
            /\ transaction[2].bytes # <<>>
            /\ BitAnd(transaction[2].bytes[1], 1) = 1
    THEN [ready |-> TRUE, panic |-> FALSE]
    ELSE [ready |-> rdy, panic |-> FALSE]

\* returns [ready, panic]; panic: the panic! of the let-else, or operation[0]
\* on an empty read buffer
handle_transaction(rdy, transaction) ==
    IF transaction = <<>>
    THEN [ready |-> rdy, panic |-> FALSE]
    ELSE IF Head(transaction).kind = "Write"
    THEN IF Contains(Head(transaction).bytes, BitOr(RCR, ESTAT))
         THEN IF Len(transaction) >= 2 /\ transaction[2].kind = "Read"
              THEN LET operation == transaction[2].bytes
                   IN  IF operation = <<>>
                       THEN [ready |-> rdy, panic |-> TRUE]
                       ELSE IF BitAnd(operation[1], 1) = 1
                       THEN [ready |-> TRUE, panic |-> FALSE]
                       ELSE [ready |-> rdy, panic |-> FALSE]
              ELSE [ready |-> rdy, panic |-> TRUE]
         ELSE [ready |-> rdy, panic |-> FALSE]
    ELSE [ready |-> rdy, panic |-> FALSE]

---------------------------------------------------------------------------
(* Inputs *)

\* registers the callers read (EREVID is the one main reads)
EREVID == ControlRegister(Bank3, 18)
ESTATReg == ControlRegister(Bank0, ESTAT)
Registers == {EREVID, ESTATReg, ERXFCON}

\* receive ranges the driver is constructed with
ErxRanges == {[start |-> 0, end |-> 496], [start |-> 29, end |-> 285]}

\* operations pushed into the bare engine
EngineOps == {Write(<<BitOr(WCR, 8), 1>>), Read(<<0>>)}

\* transactions a caller may hand to handle_transaction
FirstOps ==
    {Write(<<BitOr(RCR, ESTAT)>>), Write(<<BitOr(WCR, 8), 0>>),
     Write(<<BitOr(WCR, 8), 29>>), Read(<<0>>)}
SecondOps == {Read(<<0>>), Read(<<1>>), Write(<<BitOr(WCR, 8), 0>>)}
TxInputs ==
    {<<>>} \cup {<<a>> : a \in FirstOps}
           \cup {<<a, b>> : a \in FirstOps, b \in SecondOps}
           \cup {<<Write(<<BitOr(RCR, ESTAT)>>), Read(<<>>)>>}

\* bytes the bus may read back into a read buffer
ReadBytes == {0, 1}

\* the bus fills every read buffer of the transaction in place
Fill(transaction, b) ==
    [i \in 1..Len(transaction) |->
        IF transaction[i].kind = "Read"
        THEN Read([j \in 1..Len(transaction[i].bytes) |-> b])
        ELSE transaction[i]]

---------------------------------------------------------------------------
(* Calls *)

NoCall ==
    [op |-> "new", register |-> ControlRegister(Bank0, 0), value |-> 0,
     transaction |-> <<>>, res |-> "Ok", some |-> FALSE, result |-> <<>>]

DriverState ==
    [current_bank |-> current_bank, pending_transactions |-> pending_transactions]

\* the oscillator-ready probe answered with CLKRDY set
IsProbeAnswered(transaction) ==
    /\ Len(transaction) = 2
    /\ transaction[1] = Write(<<BitOr(RCR, ESTAT)>>)
    /\ transaction[2].kind = "Read"
    /\ Len(transaction[2].bytes) = 1
    /\ transaction[2].bytes[1] % 2 = 1

\* Enc28j60::with_erx_range: the state after construction
ConstructedDriver(ranges) ==
    /\ current_bank = Bank0
    /\ pending_transactions = EmptyTransactions
    /\ erx_range \in ranges
    /\ ready = FALSE
    /\ panicked = FALSE
    /\ last = NoCall
    /\ queue = <<>>
    /\ served = [some |-> FALSE, result |-> <<>>]
    /\ probed = FALSE
    /\ pc = "setup"
    /\ chip_bank = Bank0
    /\ clkrdy = FALSE
    /\ banks = <<>>
    /\ polled_bank = Bank0
    /\ enqueued = <<>>
    /\ returned = <<>>

\* the driver constructed in a program that expands no make_enum
ConstructedWith(ranges) ==
    /\ ConstructedDriver(ranges)
    /\ enum_bits = 0
    /\ enum_repr = "none"

Constructed == ConstructedWith(ErxRanges)

Returned(r, call) ==
    /\ current_bank' = r.s.current_bank
    /\ pending_transactions' = r.s.pending_transactions
    /\ last' = [call EXCEPT !.res = r.res]
    /\ UNCHANGED <<capN, capM, erx_range, ready, panicked, queue, served, probed>>

Call_init ==
    /\ ~panicked
    /\ UNCHANGED <<loopvars, enumvars>>
    /\ Returned(init(DriverState, erx_range), [NoCall EXCEPT !.op = "init"])

Call_read_register(register) ==
    /\ ~panicked
    /\ UNCHANGED <<loopvars, enumvars>>
    /\ Returned(read_register(DriverState, register),
                [NoCall EXCEPT !.op = "read_register", !.register = register])

Call_write_register(register, value) ==
    /\ ~panicked
    /\ UNCHANGED <<loopvars, enumvars>>
    /\ Returned(write_register(DriverState, register, value),
                [NoCall EXCEPT !.op = "write_register", !.register = register,
                               !.value = value])

Call_write_word(register, value) ==
    /\ ~panicked
    /\ UNCHANGED <<loopvars, enumvars>>
    /\ Returned(write_word(DriverState, register, value),
                [NoCall EXCEPT !.op = "write_word", !.register = register,
                               !.value = value])

Call_poll_pending_transaction ==
    /\ ~panicked
    /\ UNCHANGED <<loopvars, enumvars>>
    /\ LET r == poll_pending_transaction(pending_transactions, ready)
       IN  /\ pending_transactions' = r.t
           /\ panicked' = r.panic
           /\ last' = [NoCall EXCEPT !.op = "poll_pending_transaction",
                                     !.some = r.some, !.result = r.result]
    /\ UNCHANGED <<capN, capM, current_bank, erx_range, ready, queue, served, probed>>

Handled(transaction) ==
    /\ LET r == handle_transaction(ready, transaction)
       IN  /\ ready' = r.ready
           /\ panicked' = r.panic
    /\ probed' = (probed \/ IsProbeAnswered(transaction))
    /\ last' = [NoCall EXCEPT !.op = "handle_transaction",
                              !.transaction = transaction]
    /\ UNCHANGED <<capN, capM, current_bank, pending_transactions, erx_range, queue,
                   served>>

\* handle_transaction with any transaction the type allows
Call_handle_transaction(transaction) ==
    /\ ~panicked
    /\ UNCHANGED <<loopvars, enumvars>>
    /\ Handled(transaction)

\* handle_transaction with the transaction just polled, after the bus ran it
Call_handle_polled(b) ==
    /\ ~panicked
    /\ UNCHANGED <<loopvars, enumvars>>
    /\ last.op = "poll_pending_transaction"
    /\ last.some
    /\ Handled(Fill(last.result, b))

---------------------------------------------------------------------------
(* Spec: the driver under its public calls, every small capacity *)

Init ==
    /\ capN \in 1..MaxN
    /\ capM \in 1..MaxM
    /\ Constructed

Next ==
    \/ Call_init
    \/ \E register \in Registers : Call_read_register(register)
    \/ Call_poll_pending_transaction
    \/ \E transaction \in TxInputs : Call_handle_transaction(transaction)
    \/ \E b \in ReadBytes : Call_handle_polled(b)

Spec == Init /\ [][Next]_vars

---------------------------------------------------------------------------
(* SpecEngine: Transactions<N, M> alone, under any interleaving of its     *)
(* three operations.  queue is the reference: a FIFO of operation          *)
(* sequences, kept without the flat buffer and the boundary lengths.       *)

RECURSIVE Flatten(_)
Flatten(q) == IF q = <<>> THEN <<>> ELSE Head(q) \o Flatten(Tail(q))

Engine_new_transaction ==
    /\ ~panicked
    /\ UNCHANGED <<loopvars, enumvars>>
    /\ LET r == new_transaction(pending_transactions)
       IN  /\ pending_transactions' = r.t
           /\ last' = [NoCall EXCEPT !.op = "new_transaction", !.res = r.res]
    /\ queue' = IF Len(queue) < capM THEN Append(queue, <<>>) ELSE queue
    /\ UNCHANGED <<capN, capM, current_bank, erx_range, ready, panicked, served,
                   probed>>

Engine_push_operation(operation) ==
    /\ ~panicked
    /\ UNCHANGED <<loopvars, enumvars>>
    /\ LET r == push_operation(pending_transactions, operation)
       IN  /\ pending_transactions' = r.t
           /\ last' = [NoCall EXCEPT !.op = "push_operation",
                                     !.transaction = <<operation>>, !.res = r.res]
    /\ queue' = IF Len(Flatten(queue)) >= capN THEN queue
                ELSE IF queue = <<>> THEN <<<<operation>>>>
                ELSE [queue EXCEPT ![Len(queue)] = Append(@, operation)]
    /\ UNCHANGED <<capN, capM, current_bank, erx_range, ready, panicked, served,
                   probed>>

Engine_pop_transaction ==
    /\ ~panicked
    /\ UNCHANGED <<loopvars, enumvars>>
    /\ LET r == pop_transaction(pending_transactions)
       IN  /\ pending_transactions' = r.t
           /\ panicked' = r.panic
           /\ last' = [NoCall EXCEPT !.op = "pop_transaction",
                                     !.some = r.some, !.result = r.result]
    /\ served' = IF queue = <<>> THEN [some |-> FALSE, result |-> <<>>]
                 ELSE [some |-> TRUE, result |-> Head(queue)]
    /\ queue' = IF queue = <<>> THEN queue ELSE Tail(queue)
    /\ UNCHANGED <<capN, capM, current_bank, erx_range, ready, probed>>

NextEngine ==
    \/ Engine_new_transaction
    \/ \E operation \in EngineOps : Engine_push_operation(operation)
    \/ Engine_pop_transaction

InitEngine ==
    /\ Init
    /\ erx_range = [start |-> 0, end |-> 496]

SpecEngine == InitEngine /\ [][NextEngine]_vars

---------------------------------------------------------------------------
(* Claims about Transactions<N, M>, checked under SpecEngine *)

\* C2: the flat operation buffer plus the boundary queue behaves like a FIFO
\* queue of operation sequences: the boundaries are the lengths of the queued
\* sequences, the buffer is their concatenation, and pop_transaction returns
\* what the FIFO returns (the oldest transaction, its operations in push order)
C2_FifoOfTransactions ==
    /\ pending_transactions.bounds = [i \in 1..Len(queue) |-> Len(queue[i])]
    /\ pending_transactions.buffer = Flatten(queue)
    /\ last.op = "pop_transaction" =>
          /\ last.some = served.some
          /\ last.result = served.result

\* a two-operation transaction was popped while a later one is still queued
C2_Witness ==
    /\ last.op = "pop_transaction"
    /\ last.some
    /\ Len(last.result) = 2
    /\ last.result[1] # last.result[2]
    /\ Len(queue) >= 1
    /\ Len(queue[1]) >= 1

\* C3: in every reachable state the boundary lengths sum to the number of
\* buffered operations, and pop_transaction never runs out of operations
C3_BoundsSumToBuffer ==
    /\ SumSeq(pending_transactions.bounds) = Len(pending_transactions.buffer)
    /\ ~panicked

\* a push has failed while several transactions, one of them empty, are pending
C3_Witness ==
    /\ last.op = "push_operation"
    /\ last.res = "OperationsOutOfMemory"
    /\ Len(pending_transactions.bounds) >= 2
    /\ \E i \in 1..Len(pending_transactions.bounds) :
          pending_transactions.bounds[i] = 0

\* C10: push_operation on a full operation buffer returns
\* OperationsOutOfMemory and changes neither the buffer nor any boundary, so
\* the transactions to pop are those that were there before
C10_FullPushChangesNothing ==
    [][(last'.op = "push_operation"
        /\ Len(pending_transactions.buffer) >= capN)
       => (/\ last'.res = "OperationsOutOfMemory"
           /\ pending_transactions' = pending_transactions
           /\ queue' = queue)]_vars

\* a push has failed on a full buffer that holds more than one transaction
C10_Witness ==
    /\ last.op = "push_operation"
    /\ last.res = "OperationsOutOfMemory"
    /\ Len(pending_transactions.buffer) = capN
    /\ Len(pending_transactions.bounds) >= 2
    /\ pending_transactions.bounds[1] >= 1

---------------------------------------------------------------------------
(* SpecReg: the register accesses one by one (read_register, and the       *)
(* write_register and write_word that init is made of)                     *)

WriteRegisters == {ERXSTL, ERXFCON}
WriteValues == {0, 29}
WordRegisters == {ERXSTL, MACON3}
WordValues == {496, 0}

NextReg ==
    \/ \E register \in Registers : Call_read_register(register)
    \/ \E register \in WriteRegisters, value \in WriteValues :
          Call_write_register(register, value)
    \/ \E register \in WordRegisters, value \in WordValues :
          Call_write_word(register, value)
    \/ Call_poll_pending_transaction
    \/ \E b \in ReadBytes : Call_handle_polled(b)

SpecReg == InitEngine /\ [][NextReg]_vars

---------------------------------------------------------------------------
(* SpecInit: init on a fresh driver, with capacities that hold everything  *)
(* it enqueues and with the default capacities; then the polling loop      *)

ErxRangesInit ==
    ErxRanges \cup {[start |-> 0, end |-> 511], [start |-> 256, end |-> 496]}

InitLarge ==
    /\ \E c \in {<<LargeCap, LargeCap>>, <<DefaultN, DefaultM>>} :
          /\ capN = c[1]
          /\ capM = c[2]
    /\ ConstructedWith(ErxRangesInit)

\* init is the first call made on the constructed driver
Call_init_first ==
    /\ last.op = "new"
    /\ Call_init

NextInit ==
    \/ Call_init_first
    \/ Call_poll_pending_transaction
    \/ \E b \in ReadBytes : Call_handle_polled(b)

SpecInit == InitLarge /\ [][NextInit]_vars

---------------------------------------------------------------------------
(* Claims about the driver *)

\* the transactions the engine holds, oldest first
RECURSIVE TransactionsOf(_, _)
TransactionsOf(buffer, bounds) ==
    IF bounds = <<>> \/ Head(bounds) > Len(buffer) THEN <<>>
    ELSE <<SubSeq(buffer, 1, Head(bounds))>>
         \o TransactionsOf(SubSeq(buffer, Head(bounds) + 1, Len(buffer)), Tail(bounds))

Pending == TransactionsOf(pending_transactions.buffer, pending_transactions.bounds)

IsPoll(call) == call.op = "poll_pending_transaction"

\* C1: until handle_transaction has been given the ESTAT probe answered with
\* bit 0 set, every poll returns the probe; once it has, ready is true for
\* good and every poll returns the oldest queued transaction or no value
C1_ProbeUntilClockReady ==
    [][/\ probed' => ready'
       /\ IsPoll(last') =>
             IF ~probed
             THEN last'.some /\ last'.result = Probe
             ELSE IF Pending = <<>>
             THEN ~last'.some
             ELSE last'.some /\ last'.result = Head(Pending)]_vars

C5_OtherWritesIgnored ==
    [][(/\ last'.op = "handle_transaction"
        /\ last'.transaction # <<>>
        /\ Head(last'.transaction).kind = "Write"
        /\ Head(last'.transaction).bytes # <<29>>)
       => (/\ ~panicked'
           /\ ready' = ready
           /\ current_bank' = current_bank
           /\ pending_transactions' = pending_transactions)]_vars

\* C6: write_word(R, V) to a register of the cached bank enqueues exactly
\* [WCR|address(R), V mod 256] and then [WCR|(address(R)+1), V div 256]
C6_WordLowByteFirst ==
    [][(/\ last'.op = "write_word"
        /\ last'.res = "Ok"
        /\ last'.register.bank = current_bank)
       => pending_transactions'.buffer =
             pending_transactions.buffer \o
             <<Write(<<64 + last'.register.address, last'.value % 256>>),
               Write(<<64 + last'.register.address + 1, last'.value \div 256>>)>>]_vars

\* the register writes (WCR instructions) among the operations, in order
RECURSIVE RegisterWrites(_)
RegisterWrites(buffer) ==
    IF buffer = <<>> THEN <<>>
    ELSE (IF /\ Head(buffer).kind = "Write"
             /\ Len(Head(buffer).bytes) = 2
             /\ Head(buffer).bytes[1] \div 32 = 2
          THEN <<Head(buffer).bytes>> ELSE <<>>)
         \o RegisterWrites(Tail(buffer))

\* the register values init documents for the range 0..=0x1F0, words low
\* byte first
DocumentedInitWrites ==
    <<<<64 + 8, 0>>, <<64 + 9, 0>>,       \* receive-buffer start = 0
      <<64 + 10, 240>>, <<64 + 11, 1>>,   \* receive-buffer end = 0x1F0
      <<64 + 12, 0>>, <<64 + 13, 0>>,     \* receive-buffer read pointer = 0
      <<64 + 24, 0>>,                     \* receive filter config = 0x00
      <<64 + 0, 13>>,                     \* MAC config 1 = 0b0000_1101
      <<64 + 2, 247>>, <<64 + 3, 0>>,     \* MAC config 3 = 0b1111_0111
      <<64 + 3, 0>>, <<64 + 4, 0>>>>      \* MAC config 4 = 0

\* C7: init on a fresh driver with the range 0..=0x1F0 and room enough
\* enqueues exactly 7 transactions, writing the documented registers with the
\* documented values in the documented order
C7_InitSevenTransactions ==
    (/\ last.op = "init"
     /\ last.res = "Ok"
     /\ erx_range = [start |-> 0, end |-> 496])
    => (/\ Len(pending_transactions.bounds) = 7
        /\ RegisterWrites(pending_transactions.buffer) = DocumentedInitWrites)

IsAccess(call) == call.op \in {"read_register", "write_register"}

\* the operations of the access transaction, as the protocol encodes them
AccessOps(call) ==
    IF call.op = "read_register"
    THEN <<Write(<<0 + call.register.address>>), Read(<<0>>)>>
    ELSE <<Write(<<64 + call.register.address, call.value>>)>>

\* C8: a successful register access to the cached bank enqueues its access
\* transaction alone; one to another bank enqueues exactly one transaction
\* [BFS|ECON1, bank] right before it; the cache is then the accessed bank, so
\* the same bank twice in a row switches once
C8_BankElision ==
    [][(IsAccess(last') /\ last'.res = "Ok")
       => (/\ current_bank' = last'.register.bank
           /\ IF last'.register.bank = current_bank
              THEN /\ pending_transactions'.bounds =
                         pending_transactions.bounds \o <<Len(AccessOps(last'))>>
                   /\ pending_transactions'.buffer =
                         pending_transactions.buffer \o AccessOps(last')
              ELSE /\ pending_transactions'.bounds =
                         pending_transactions.bounds \o <<1, Len(AccessOps(last'))>>
                   /\ pending_transactions'.buffer =
                         pending_transactions.buffer
                         \o <<Write(<<128 + 31, last'.register.bank>>)>>
                         \o AccessOps(last'))]_vars

\* two successful accesses to bank 1 in a row: one switch, then the two
\* access transactions
C8_Witness ==
    /\ last.op = "write_register"
    /\ last.res = "Ok"
    /\ last.register = ERXFCON
    /\ pending_transactions.bounds = <<1, 1, 1>>
    /\ pending_transactions.buffer[1] = Write(<<159, 1>>)
    /\ pending_transactions.buffer[2].bytes[1] = 64 + 24
    /\ pending_transactions.buffer[3].bytes[1] = 64 + 24

\* C9: every transaction in the engine that starts with a register read
\* instruction (a one-byte write RCR|address) is that write followed by a read
\* with a one-byte buffer, and nothing else
C9_ReadIsTwoOperations ==
    \A i \in 1..Len(Pending) :
        (/\ Pending[i] # <<>>
         /\ Pending[i][1].kind = "Write"
         /\ Len(Pending[i][1].bytes) = 1
         /\ Pending[i][1].bytes[1] < 32)
        => (/\ Len(Pending[i]) = 2
            /\ Pending[i][2].kind = "Read"
            /\ Len(Pending[i][2].bytes) = 1)

---------------------------------------------------------------------------
(* Further claims about the engine (SpecEngine) and the driver (Spec) *)

\* C11: new_transaction on a full boundary queue returns
\* TransactionOutOfMemory and changes neither the boundary queue nor the
\* operation buffer
C11_FullNewTransactionChangesNothing ==
    [][(last'.op = "new_transaction"
        /\ Len(pending_transactions.bounds) >= capM)
       => (/\ last'.res = "TransactionOutOfMemory"
           /\ pending_transactions' = pending_transactions
           /\ queue' = queue)]_vars

\* new_transaction has failed on a full boundary queue whose newest
\* transaction holds operations
C11_Witness ==
    /\ last.op = "new_transaction"
    /\ last.res = "TransactionOutOfMemory"
    /\ Len(pending_transactions.bounds) = capM
    /\ pending_transactions.bounds[capM] >= 1
    /\ capM >= 2

IsProbeWithoutRead(transaction) ==
    /\ transaction # <<>>
    /\ transaction[1] = Write(<<29>>)
    /\ (Len(transaction) = 1 \/ transaction[2].kind # "Read")

\* C13: handle_transaction given the ESTAT-probing write followed by nothing
\* or by something that is not a read aborts, and does not change ready
C13_ProbeWithoutReadAborts ==
    [][(/\ last'.op = "handle_transaction"
        /\ IsProbeWithoutRead(last'.transaction))
       => (panicked' /\ ready' = ready)]_vars

\* the driver has aborted on a probing write followed by a write, not ready
C13_Witness ==
    /\ last.op = "handle_transaction"
    /\ Len(last.transaction) = 2
    /\ IsProbeWithoutRead(last.transaction)
    /\ panicked
    /\ ~ready

\* the bank-switch instruction: bit field set on ECON1
IsSwitch(operation) ==
    /\ operation.kind = "Write"
    /\ Len(operation.bytes) = 2
    /\ operation.bytes[1] = 128 + 31

\* the payload of the last bank switch among ops, or bank if there is none
RECURSIVE LastSwitch(_, _)
LastSwitch(ops, bank) ==
    IF ops = <<>> THEN bank
    ELSE LastSwitch(Tail(ops), IF IsSwitch(Head(ops)) THEN Head(ops).bytes[2] ELSE bank)

IsEnqueue(call) == call.op \in {"init", "read_register", "write_register", "write_word"}

\* what a step appended to a buffer
AppendedTo(old, new) == SubSeq(new, Len(old) + 1, Len(new))

\* C15: the cached bank is Bank0 at first and afterwards the payload of the
\* most recently enqueued bank switch: a call changes it exactly to the last
\* switch it enqueued (failed calls included), a switch is the first thing a
\* register access to another bank enqueues, and nothing else changes it
C15_CacheFollowsEnqueuedSwitch ==
    /\ current_bank = 0
    /\ [][IF IsEnqueue(last')
          THEN /\ Len(pending_transactions'.buffer) >= Len(pending_transactions.buffer)
               /\ current_bank' =
                     LastSwitch(AppendedTo(pending_transactions.buffer,
                                           pending_transactions'.buffer),
                                current_bank)
               /\ (/\ IsAccess(last')
                   /\ last'.register.bank # current_bank
                   /\ Len(pending_transactions'.buffer) > Len(pending_transactions.buffer))
                  => pending_transactions'.buffer[Len(pending_transactions.buffer) + 1]
                        = Write(<<128 + 31, last'.register.bank>>)
          ELSE current_bank' = current_bank]_vars

\* a switch to bank 1 was enqueued and cached; the next access, to another
\* bank, failed before its switch was enqueued and left the cache at bank 1
C15_Witness ==
    /\ last.op = "read_register"
    /\ last.res = "OperationsOutOfMemory"
    /\ last.register.bank = 3
    /\ current_bank = 1
    /\ \E i \in 1..Len(pending_transactions.bounds) :
          pending_transactions.bounds[i] = 0

\* C19: every transaction returned by poll_pending_transaction, and every
\* transaction waiting in the engine, holds at most 2 operations
C19_AtMostTwoOperations ==
    /\ (IsPoll(last) /\ last.some) => Len(last.result) <= 2
    /\ \A i \in 1..Len(pending_transactions.bounds) :
          pending_transactions.bounds[i] <= 2

\* a two-operation transaction was taken from the engine
C19_Witness ==
    /\ IsPoll(last)
    /\ ready
    /\ last.some
    /\ Len(last.result) = 2
    /\ last.result # Probe

---------------------------------------------------------------------------
(* C18: init with the default capacities *)

\* the registers init documents that it configures, as write opcodes
DocumentedInitRegisters ==
    {64 + 8, 64 + 10, 64 + 12, 64 + 24, 64 + 0, 64 + 2, 64 + 3}

\* C18: on a freshly constructed driver with the default capacities, N = 50
\* and M = 10, init returns Ok and a write to every register it documents is
\* in the engine afterwards
C18_DefaultCapacitiesHoldInit ==
    (/\ capN = DefaultN
     /\ capM = DefaultM
     /\ last.op = "init")
    => (/\ last.res = "Ok"
        /\ \A w \in DocumentedInitRegisters :
              \E i \in 1..Len(pending_transactions.buffer) :
                 /\ pending_transactions.buffer[i].kind = "Write"
                 /\ pending_transactions.buffer[i].bytes[1] = w)

---------------------------------------------------------------------------
(* SpecLoop: the caller enqueues with init and read_register and then runs
   the loop of poll_pending_transaction, the bus, handle_transaction,
   against a chip that keeps the bank-select bits and the clock-ready bit *)

LoopN == 6
LoopM == 4

\* registers read before the loop: one of each bank, and ESTAT
LoopRegisters == {ERXSTL, ERXFCON, MACON1, EREVID, ESTATReg}

\* the cached bank under which each of the transactions txs was enqueued,
\* bank being the cached bank before the first
RECURSIVE EnqueuedUnder(_, _)
EnqueuedUnder(txs, bank) ==
    IF txs = <<>> THEN <<>>
    ELSE <<bank>> \o EnqueuedUnder(Tail(txs), LastSwitch(Head(txs), bank))

\* the chip's bank-select bits after the bus ran the operations ops: a
\* bit-field-set on ECON1 ORs its payload into them
RECURSIVE ChipBankAfter(_, _)
ChipBankAfter(ops, bank) ==
    IF ops = <<>> THEN bank
    ELSE ChipBankAfter(Tail(ops),
                       IF IsSwitch(Head(ops))
                       THEN BitOr(bank, BitAnd(Head(ops).bytes[2], 3))
                       ELSE bank)

\* a read of ESTAT: the chip answers it with the clock-ready bit
IsEstatRead(transaction) ==
    /\ transaction # <<>>
    /\ transaction[1] = Write(<<BitOr(RCR, ESTAT)>>)

\* a call that enqueues, made before the loop
Loop_enqueue(r, call) ==
    /\ ~panicked
    /\ Returned(r, call)
    /\ LET old == Pending
           new == TransactionsOf(r.s.pending_transactions.buffer,
                                 r.s.pending_transactions.bounds)
       IN  banks' = banks \o EnqueuedUnder(SubSeq(new, Len(old) + 1, Len(new)),
                                           current_bank)
    /\ UNCHANGED <<pc, chip_bank, clkrdy, polled_bank, enqueued, returned, enumvars>>

Loop_init ==
    /\ pc = "setup"
    /\ Loop_enqueue(init(DriverState, erx_range), [NoCall EXCEPT !.op = "init"])

Loop_read_register(register) ==
    /\ pc = "setup"
    /\ Loop_enqueue(read_register(DriverState, register),
                    [NoCall EXCEPT !.op = "read_register", !.register = register])

\* the caller enters the loop
Loop_start ==
    /\ pc = "setup"
    /\ ~panicked
    /\ pc' = "poll"
    /\ enqueued' = Pending
    /\ UNCHANGED <<capN, capM, current_bank, pending_transactions, erx_range, ready,
                   panicked, last, queue, served, probed, chip_bank, clkrdy, banks,
                   polled_bank, returned, enumvars>>

\* while let Some(transaction) = poll_pending_transaction()
Loop_poll_pending_transaction ==
    /\ pc = "poll"
    /\ ~panicked
    /\ LET r == poll_pending_transaction(pending_transactions, ready)
       IN  /\ pending_transactions' = r.t
           /\ panicked' = r.panic
           /\ last' = [NoCall EXCEPT !.op = "poll_pending_transaction",
                                     !.some = r.some, !.result = r.result]
           /\ pc' = IF r.some THEN "exec" ELSE "done"
           /\ returned' = IF ready /\ r.some THEN Append(returned, r.result)
                          ELSE returned
           /\ banks' = IF ready /\ r.some THEN Tail(banks) ELSE banks
           /\ polled_bank' = IF ready /\ r.some THEN Head(banks) ELSE polled_bank
    /\ UNCHANGED <<capN, capM, current_bank, erx_range, ready, queue, served, probed,
                   chip_bank, clkrdy, enqueued, enumvars>>

\* the bus runs the polled transaction: writes reach the chip, read buffers
\* are filled with b, a read of ESTAT with the clock-ready bit
Loop_spi_transaction(b) ==
    /\ pc = "exec"
    /\ ~panicked
    /\ IsEstatRead(last.result) => b = (IF clkrdy THEN 1 ELSE 0)
    /\ chip_bank' = ChipBankAfter(last.result, chip_bank)
    /\ last' = [last EXCEPT !.op = "spi_transaction", !.result = Fill(last.result, b)]
    /\ pc' = "handle"
    /\ UNCHANGED <<capN, capM, current_bank, pending_transactions, erx_range, ready,
                   panicked, queue, served, probed, clkrdy, banks, polled_bank,
                   enqueued, returned, enumvars>>

\* handle_transaction with what the bus returned
Loop_handle_transaction ==
    /\ pc = "handle"
    /\ ~panicked
    /\ Handled(last.result)
    /\ pc' = IF panicked' THEN "aborted" ELSE "poll"
    /\ UNCHANGED <<chip_bank, clkrdy, banks, polled_bank, enqueued, returned, enumvars>>

\* the chip's oscillator becomes stable
Chip_clock_ready ==
    /\ ~clkrdy
    /\ ~panicked
    /\ clkrdy' = TRUE
    /\ UNCHANGED <<capN, capM, current_bank, pending_transactions, erx_range, ready,
                   panicked, last, queue, served, probed, pc, chip_bank, banks,
                   polled_bank, enqueued, returned, enumvars>>

InitLoop ==
    /\ capN \in 1..LoopN
    /\ capM \in 1..LoopM
    /\ Constructed

NextLoop ==
    \/ Loop_init
    \/ \E register \in LoopRegisters : Loop_read_register(register)
    \/ Loop_start
    \/ Loop_poll_pending_transaction
    \/ \E b \in ReadBytes : Loop_spi_transaction(b)
    \/ Loop_handle_transaction
    \/ Chip_clock_ready

SpecLoop == InitLoop /\ [][NextLoop]_vars

\* the caller keeps looping and the oscillator becomes stable
SpecLoopFair ==
    /\ SpecLoop
    /\ WF_vars(Loop_start)
    /\ WF_vars(Loop_poll_pending_transaction)
    /\ WF_vars(\E b \in ReadBytes : Loop_spi_transaction(b))
    /\ WF_vars(Loop_handle_transaction)
    /\ WF_vars(Chip_clock_ready)

\* under that fairness every run of the loop ends: by the abort of
\* handle_transaction, or by poll_pending_transaction returning no value with
\* the driver ready and everything returned in order
LoopEndsOrAborts ==
    <>(\/ panicked
       \/ (/\ pc = "done"
           /\ ready
           /\ returned = enqueued
           /\ pending_transactions.bounds = <<>>))

\* a read or write of a register that exists once per bank (addresses below
\* 0x1B; 0x1B..0x1F are the same register in every bank)
IsBankedAccess(transaction) ==
    /\ transaction # <<>>
    /\ transaction[1].kind = "Write"
    /\ transaction[1].bytes # <<>>
    /\ transaction[1].bytes[1] < 128
    /\ transaction[1].bytes[1] % 32 < 27

\* C14: with the chip starting in Bank0, a bit-field-set on ECON1 OR-ing its
\* payload into the bank-select bits and the polled transactions executed in
\* FIFO order, every register access is executed while the chip's bank-select
\* bits equal the bank cached when the access was enqueued (stated for the
\* registers whose bank matters)
C14_ExecutedInEnqueuedBank ==
    (/\ pc = "exec"
     /\ ready
     /\ IsBankedAccess(last.result))
    => chip_bank = polled_bank

\* C17: handle_transaction, fed only what poll_pending_transaction returned
\* with its read buffers filled by the bus, never reaches its abort, for
\* every receive range and every sequence of init and read_register calls
C17_PolledNeverAborts ==
    ~panicked

\* C16: the loop ends only by poll_pending_transaction returning no value,
\* and then the driver is ready and every transaction that was queued in the
\* engine has been returned exactly once, in enqueue order
C16_LoopReturnsEverything ==
    (panicked \/ pc = "done")
    => (/\ pc = "done"
        /\ ready
        /\ returned = enqueued
        /\ pending_transactions.bounds = <<>>)

---------------------------------------------------------------------------
(* SpecEnum: make_enum picks the backing type of the enumeration.  A u128
   is kept as 8 limbs of 16 bits, lowest first *)

MaxBits == 130

U128_MAX == [i \in 1..8 |-> 65535]

\* 1u128.checked_shl(bits_val): None when the shift is the width or more
checked_shl(bits_val) ==
    IF bits_val >= 128
    THEN [some |-> FALSE, v |-> U128_MAX]
    ELSE [some |-> TRUE,
          v |-> [i \in 1..8 |-> IF i - 1 = bits_val \div 16
                                THEN 2 ^ (bits_val % 16) ELSE 0]]

\* v - 1 for v > 0: the borrow runs up to the lowest limb that is not 0
U128MinusOne(v) ==
    LET k == CHOOSE i \in 1..8 : v[i] # 0 /\ \A j \in 1..(i - 1) : v[j] = 0
    IN  [i \in 1..8 |-> IF i < k THEN 65535 ELSE IF i = k THEN v[i] - 1 ELSE v[i]]

\* a < b: decided by the highest limb in which they differ
U128Less(a, b) ==
    \E i \in 1..8 : a[i] < b[i] /\ \A j \in (i + 1)..8 : a[j] = b[j]

\* checked_shl(bits_val).map(|v| v - 1).unwrap_or(u128::MAX)
max_value(bits_val) ==
    LET r == checked_shl(bits_val)
    IN  IF r.some THEN U128MinusOne(r.v) ELSE U128_MAX

\* the match on max_value: ..256, ..65_536, ..4_294_967_296,
\* ..18_446_744_073_709_551_615, _
repr_ty(m) ==
    IF U128Less(m, <<256, 0, 0, 0, 0, 0, 0, 0>>) THEN "u8"
    ELSE IF U128Less(m, <<0, 1, 0, 0, 0, 0, 0, 0>>) THEN "u16"
    ELSE IF U128Less(m, <<0, 0, 1, 0, 0, 0, 0, 0>>) THEN "u32"
    ELSE IF U128Less(m, <<65535, 65535, 65535, 65535, 0, 0, 0, 0>>) THEN "u64"
    ELSE "u128"

\* the backing type, or "error" for the compile error
make_enum(bits) ==
    IF bits > 0 /\ bits <= 128 THEN repr_ty(max_value(bits)) ELSE "error"

\* the macro is expanded
Expand_make_enum ==
    /\ enum_repr = "none"
    /\ enum_repr' = make_enum(enum_bits)
    /\ UNCHANGED <<capN, capM, current_bank, pending_transactions, erx_range, ready,
                   panicked, last, queue, served, probed, loopvars, enum_bits>>

InitEnum ==
    /\ capN = DefaultN
    /\ capM = DefaultM
    /\ ConstructedDriver({[start |-> 0, end |-> 496]})
    /\ enum_bits \in 0..MaxBits
    /\ enum_repr = "none"

NextEnum == Expand_make_enum

SpecEnum == InitEnum /\ [][NextEnum]_vars

\* C20: for every width w in 1..128 make_enum backs the enumeration with the
\* narrowest of u8, u16, u32, u64, u128 that holds 2^w - 1 (u8 for w <= 8,
\* u16 for w <= 16, u32 for w <= 32, u64 for w <= 64, u128 otherwise), and a
\* width outside 1..128 is rejected
C20_NarrowestBackingType ==
    enum_repr # "none"
    => enum_repr = (IF enum_bits < 1 \/ enum_bits > 128 THEN "error"
                    ELSE IF enum_bits <= 8 THEN "u8"
                    ELSE IF enum_bits <= 16 THEN "u16"
                    ELSE IF enum_bits <= 32 THEN "u32"
                    ELSE IF enum_bits <= 64 THEN "u64"
                    ELSE "u128")

====
